---- MODULE Spec2Model ----
(***************************************************************************)
(* Model of leptos_dom/src/components/errors.rs: the Errors collection,    *)
(* ErrorKey, and the IntoView adapter for Result<T, E> that keeps the      *)
(* collection of the nearest error boundary in step with the failures of   *)
(* the nodes rendered below it.                                            *)
(***************************************************************************)
EXTENDS Integers, Sequences, FiniteSets, TLC

VARIABLES
    errors,      \* boundary -> contents of its RwSignal<Errors>: a set of <<ErrorKey, Arc>> entries
    cleanups,    \* node -> callbacks registered with on_cleanup on the node's scope
    microtasks,  \* closures handed to queue_microtask, oldest first
    status,      \* node -> "unmounted" | "ok" | "err": what the node's latest render produced
    inPass,      \* TRUE while a synchronous render/update pass is running
    client,      \* cfg(all(target_arch = "wasm32", feature = "web"))
    last,        \* the operation performed by the latest step
    prev         \* in a sequence of collection calls, the call before the latest one

vars == <<errors, cleanups, microtasks, status, inPass, client, last, prev>>

\* ---------------------------------------------------------------- bounds
MaxCleanups == 2   \* callbacks one scope may hold before the model stops adding
MaxQueue == 2      \* closures the microtask queue may hold

\* ------------------------------------------------------------ the universe
Nodes == {"n1", "n2", "n3"}
Boundaries == {"b1"}
ErrorValues == {"e1", "e2"}
Stuff == {"s1", "s2"}

\* Option<T>
None == <<>>
Some(x) == <<x>>

\* ---------------------------------------------------------------- ErrorKey
\* struct ErrorKey(Cow<'static, str>)
ErrorKey(s) == <<"ErrorKey", s>>

\* #[derive(Default)]: the key around the empty string
ErrorKey_default == ErrorKey("")

\* Arc::new(error): the shared handle the collection stores
Arc_new(error) == <<"Arc", error>>

\* ------------------------------------------------------------ environment
\* HydrationCtx::peek(): the position of the node that is rendering
HydrationCtx_peek(n) ==
    [previous |-> CASE n = "n1" -> "0-1-"
                    [] n = "n2" -> "0-2-"
                    [] OTHER    -> "0-3-"]

\* use_context::<RwSignal<Errors>>(cx): the handle of the nearest boundary
use_context(n) == IF n \in {"n1", "n2"} THEN Some("b1") ELSE None

\* ------------------------------------------------------------- HashMap
HashMap_keys(m) == {p[1] : p \in m}

HashMap_get(m, key) ==
    IF key \in HashMap_keys(m)
    THEN Some((CHOOSE p \in m : p[1] = key)[2])
    ELSE None

\* variant: the new entry is added without dropping the one already at the key
HashMap_insert_multi(m, key, value) == m \cup {<<key, value>>}

HashMap_insert(m, key, value) == {p \in m : p[1] # key} \cup {<<key, value>>}

\* variant: an absent key makes the map drop everything
HashMap_remove_clearing(m, key) ==
    [map |-> IF key \in HashMap_keys(m) THEN {p \in m : p[1] # key} ELSE {},
     ret |-> HashMap_get(m, key)]

HashMap_remove(m, key) ==
    [map |-> {p \in m : p[1] # key}, ret |-> HashMap_get(m, key)]

\* ---------------------------------------------------------------- Errors
Errors_is_empty(m) == m = {}

\* variant: an existing entry wins over the new error (entry().or_insert)
Errors_insert_keep_first(m, key, error) ==
    IF key \in HashMap_keys(m) THEN m ELSE HashMap_insert(m, key, Arc_new(error))

Errors_insert(m, key, error) == HashMap_insert(m, key, Arc_new(error))

\* variant: the key is made from the error instead of being the default key
Errors_insert_with_default_key_by_error(m, error) ==
    HashMap_insert(m, ErrorKey(error), Arc_new(error))

Errors_insert_with_default_key(m, error) ==
    HashMap_insert(m, ErrorKey_default, Arc_new(error))

\* variant: the entry is dropped but not handed back
Errors_remove_lossy(m, key) == [map |-> HashMap_remove(m, key).map, ret |-> None]

Errors_remove(m, key) == HashMap_remove(m, key)

\* ------------------------------------------------------------------ Iter
\* Errors::iter(): an iterator over the entries in an order the map chooses;
\* the iterator is the sequence of entries it has yet to yield
Errors_iter(m) ==
    {it \in [1..Cardinality(m) -> m] : \A i, j \in 1..Cardinality(m) : it[i] = it[j] => i = j}

\* variant: next() steps over the entry behind the one it yields
Iter_next_skipping(it) ==
    [item |-> IF it = <<>> THEN None ELSE Some(Head(it)),
     rest |-> IF Len(it) < 2 THEN <<>> ELSE Tail(Tail(it))]

\* <Iter as Iterator>::next: self.0.next()
Iter_next(it) ==
    [item |-> IF it = <<>> THEN None ELSE Some(Head(it)),
     rest |-> IF it = <<>> THEN it ELSE Tail(it)]

\* calling next() until it returns None
RECURSIVE Iter_collect(_)
Iter_collect(it) ==
    LET r == Iter_next(it)
    IN IF r.item = None THEN <<>> ELSE <<r.item[1]>> \o Iter_collect(r.rest)

Keys == {ErrorKey(HydrationCtx_peek(n).previous) : n \in {"n1", "n2"}} \cup {ErrorKey_default}

\* -------------------------------------------------------------- the log
NoOp == [op |-> "init", node |-> "-", b |-> "-", key |-> ErrorKey_default,
         err |-> "-", stuff |-> "-", ret |-> None, view |-> "-", pre |-> {},
         empty |-> FALSE, items |-> <<>>]

Init ==
    /\ errors = [b \in Boundaries |-> {}]
    /\ cleanups = [n \in Nodes |-> <<>>]
    /\ microtasks = <<>>
    /\ status = [n \in Nodes |-> "unmounted"]
    /\ inPass = FALSE
    /\ client \in BOOLEAN
    /\ last = NoOp
    /\ prev = NoOp

\* ------------------------------------------- RwSignal<Errors>::update
\* errors.update(f): apply the mutator to the value held by boundary b
Signal_update(errs, b, newValue) == [errs EXCEPT ![b] = newValue]

\* ------------------------------------- <Result<T, E> as IntoView>::into_view
\* variant: every node uses the default key
IntoView_id_shared(n) == ErrorKey_default

\* let id = ErrorKey(HydrationCtx::peek().previous.into());
IntoView_id(n) == ErrorKey(HydrationCtx_peek(n).previous)

\* variant: the Ok arm leaves the collection alone
IntoView_ok_errors_skip(errs, ctx, id) == errs

\* variant: the Ok arm empties the boundary's collection
IntoView_ok_errors_clear(errs, ctx, id) ==
    IF ctx # None THEN Signal_update(errs, ctx[1], {}) ELSE errs

\* variant: when the key has no entry the Ok arm drops some other entry
IntoView_ok_errors_pop(errs, ctx, id) ==
    IF ctx = None THEN errs
    ELSE LET m == errs[ctx[1]]
         IN IF id \in HashMap_keys(m) \/ m = {}
            THEN Signal_update(errs, ctx[1], {p \in m : p[1] # id})
            ELSE Signal_update(errs, ctx[1], m \ {CHOOSE p \in m : TRUE})

\* Ok(stuff) arm: if let Some(errors) = errors { errors.update(|e| e.0.remove(&id)) }
IntoView_ok_errors(errs, ctx, id) ==
    IF ctx # None
    THEN Signal_update(errs, ctx[1], HashMap_remove(errs[ctx[1]], id).map)
    ELSE errs

\* variant: without a boundary the error goes to the first collection there is
IntoView_err_errors_global(errs, ctx, id, error) ==
    LET b == IF ctx # None THEN ctx[1] ELSE CHOOSE x \in DOMAIN errs : TRUE
    IN Signal_update(errs, b, Errors_insert(errs[b], id, error))

\* variant: a failure is added next to the ones already stored for the node
IntoView_err_errors_append(errs, ctx, id, error) ==
    IF ctx # None
    THEN Signal_update(errs, ctx[1], errs[ctx[1]] \cup {<<id, Arc_new(error)>>})
    ELSE errs

\* Err(error) arm: Some(errors) => errors.update(move |errors| errors.insert(id, error))
IntoView_err_errors(errs, ctx, id, error) ==
    IF ctx # None
    THEN Signal_update(errs, ctx[1], Errors_insert(errs[ctx[1]], id, error))
    ELSE errs

\* variant: the cleanup is registered in every build
IntoView_err_cleanups_always(cls, isClient, ctx, id) ==
    IF ctx # None THEN Append(cls, [errors |-> ctx[1], id |-> id]) ELSE cls

\* Err(error) arm: on_cleanup(cx, move || ...), compiled for the client only.
\* The callback captures the signal handle and the key.
IntoView_err_cleanups(cls, isClient, ctx, id) ==
    IF ctx # None /\ isClient
    THEN Append(cls, [errors |-> ctx[1], id |-> id])
    ELSE cls

\* variant: the Ok arm returns the empty view
IntoView_ok_view_unit(stuff) == "()"

\* the value into_view returns: stuff.into_view(cx) or ().into_view(cx)
IntoView_ok_view(stuff) == stuff
IntoView_err_view == "()"

\* variant: the callback is dropped without queueing anything
Cleanup_run_dropped(st, callback) == st

\* variant: the callback removes the entry at once instead of queueing
Cleanup_run_inline(st, callback) ==
    [queue |-> st.queue,
     errors |-> Signal_update(st.errors, callback.errors,
                              HashMap_remove(st.errors[callback.errors], callback.id).map)]

\* the body of the on_cleanup callback: queue_microtask(move || ...)
Cleanup_run(st, callback) ==
    [queue |-> Append(st.queue, callback), errors |-> st.errors]

\* variant: the queued closure empties the collection
Microtask_run_all(errs, closure) == Signal_update(errs, closure.errors, {})

\* variant: the queued closure empties the collection when its key has no entry
Microtask_run_clearing(errs, closure) ==
    Signal_update(errs, closure.errors,
                  HashMap_remove_clearing(errs[closure.errors], closure.id).map)

\* the body of the queued closure: errors.update(|errors| { errors.remove(&id); })
Microtask_run(errs, closure) ==
    Signal_update(errs, closure.errors, Errors_remove(errs[closure.errors], closure.id).map)

\* disposing a scope runs its cleanup callbacks in the order they were registered
RECURSIVE Scope_run_cleanups(_, _)
Scope_run_cleanups(st, cls) ==
    IF cls = <<>> THEN st
    ELSE Scope_run_cleanups(Cleanup_run(st, Head(cls)), Tail(cls))

CtxName(ctx) == IF ctx = None THEN "-" ELSE ctx[1]
CtxValue(errs, ctx) == IF ctx = None THEN {} ELSE errs[ctx[1]]

\* --------------------------------------------------------------- actions
\* a synchronous render/update pass starts once the microtask queue has drained
BeginPass ==
    /\ ~inPass
    /\ microtasks = <<>>
    /\ inPass' = TRUE
    /\ last' = [NoOp EXCEPT !.op = "begin"]
    /\ prev' = NoOp
    /\ UNCHANGED <<errors, cleanups, microtasks, status, client>>

\* the pass runs to completion
EndPass ==
    /\ inPass
    /\ inPass' = FALSE
    /\ last' = [NoOp EXCEPT !.op = "end"]
    /\ prev' = NoOp
    /\ UNCHANGED <<errors, cleanups, microtasks, status, client>>

\* Ok(stuff).into_view(cx) for node n
IntoViewOk(n, stuff) ==
    /\ inPass
    /\ LET id == IntoView_id(n)
           ctx == use_context(n)
       IN /\ errors' = IntoView_ok_errors(errors, ctx, id)
          /\ last' = [NoOp EXCEPT !.op = "into_view_ok", !.node = n, !.b = CtxName(ctx),
                                  !.key = id, !.stuff = stuff, !.view = IntoView_ok_view(stuff),
                                  !.pre = CtxValue(errors, ctx)]
    /\ status' = [status EXCEPT ![n] = "ok"]
    /\ prev' = NoOp
    /\ UNCHANGED <<cleanups, microtasks, inPass, client>>

\* Err(error).into_view(cx) for node n
IntoViewErr(n, error) ==
    /\ inPass
    /\ Len(cleanups[n]) < MaxCleanups
    /\ LET id == IntoView_id(n)
           ctx == use_context(n)
       IN /\ errors' = IntoView_err_errors(errors, ctx, id, error)
          /\ cleanups' = [cleanups EXCEPT ![n] = IntoView_err_cleanups(@, client, ctx, id)]
          /\ last' = [NoOp EXCEPT !.op = "into_view_err", !.node = n, !.b = CtxName(ctx),
                                  !.key = id, !.err = error, !.view = IntoView_err_view,
                                  !.pre = CtxValue(errors, ctx)]
    /\ status' = [status EXCEPT ![n] = "err"]
    /\ prev' = NoOp
    /\ UNCHANGED <<microtasks, inPass, client>>

\* node n is removed or replaced: its scope is disposed and its cleanups run
Dispose(n) ==
    /\ inPass
    /\ status[n] # "unmounted"
    /\ Len(microtasks) + Len(cleanups[n]) <= MaxQueue
    /\ LET st == Scope_run_cleanups([queue |-> microtasks, errors |-> errors], cleanups[n])
           ctx == use_context(n)
       IN /\ microtasks' = st.queue
          /\ errors' = st.errors
          /\ last' = [NoOp EXCEPT !.op = "dispose", !.node = n, !.b = CtxName(ctx),
                                  !.key = IntoView_id(n), !.err = status[n],
                                  !.pre = CtxValue(errors, ctx)]
    /\ cleanups' = [cleanups EXCEPT ![n] = <<>>]
    /\ status' = [status EXCEPT ![n] = "unmounted"]
    /\ prev' = NoOp
    /\ UNCHANGED <<inPass, client>>

\* the host runs the oldest queued microtask once no pass is running
RunMicrotask ==
    /\ ~inPass
    /\ microtasks # <<>>
    /\ LET closure == Head(microtasks)
       IN /\ errors' = Microtask_run(errors, closure)
          /\ last' = [NoOp EXCEPT !.op = "microtask", !.b = closure.errors,
                                  !.key = closure.id, !.pre = errors[closure.errors]]
    /\ microtasks' = Tail(microtasks)
    /\ prev' = NoOp
    /\ UNCHANGED <<cleanups, status, inPass, client>>

\* errors.update(|e| e.insert(key, error)) called directly by user code
Insert_call(b, key, error) ==
    /\ inPass
    /\ errors' = Signal_update(errors, b, Errors_insert(errors[b], key, error))
    /\ last' = [NoOp EXCEPT !.op = "insert", !.b = b, !.key = key, !.err = error,
                            !.pre = errors[b]]
    /\ UNCHANGED <<cleanups, microtasks, status, inPass, client>>

\* errors.update(|e| e.insert_with_default_key(error)) called directly by user code
InsertWithDefaultKey_call(b, error) ==
    /\ inPass
    /\ errors' = Signal_update(errors, b, Errors_insert_with_default_key(errors[b], error))
    /\ last' = [NoOp EXCEPT !.op = "insert_with_default_key", !.b = b, !.err = error,
                            !.pre = errors[b]]
    /\ UNCHANGED <<cleanups, microtasks, status, inPass, client>>

\* errors.update(|e| e.remove(&key)) called directly by user code
Remove_call(b, key) ==
    /\ inPass
    /\ LET r == Errors_remove(errors[b], key)
       IN /\ errors' = Signal_update(errors, b, r.map)
          /\ last' = [NoOp EXCEPT !.op = "remove", !.b = b, !.key = key, !.ret = r.ret,
                                  !.pre = errors[b]]
    /\ UNCHANGED <<cleanups, microtasks, status, inPass, client>>

\* the direct calls as steps of the running program
Insert(b, key, error) == Insert_call(b, key, error) /\ prev' = NoOp
InsertWithDefaultKey(b, error) == InsertWithDefaultKey_call(b, error) /\ prev' = NoOp
Remove(b, key) == Remove_call(b, key) /\ prev' = NoOp

\* the direct calls as steps of a sequence of calls on one collection, which
\* remembers the call before
ApiInsert(b, key, error) == Insert_call(b, key, error) /\ prev' = last
ApiInsertWithDefaultKey(b, error) == InsertWithDefaultKey_call(b, error) /\ prev' = last
ApiRemove(b, key) == Remove_call(b, key) /\ prev' = last

\* errors.with(|e| e.is_empty()) called by the boundary
ApiIsEmpty(b) ==
    /\ inPass
    /\ last' = [NoOp EXCEPT !.op = "is_empty", !.b = b, !.empty = Errors_is_empty(errors[b]),
                            !.pre = errors[b]]
    /\ prev' = last
    /\ UNCHANGED <<errors, cleanups, microtasks, status, inPass, client>>

\* errors.with(|e| e.iter().collect()) called by the boundary
ApiIter(b) ==
    /\ inPass
    /\ \E it \in Errors_iter(errors[b]) :
           last' = [NoOp EXCEPT !.op = "iter", !.b = b, !.items = Iter_collect(it),
                               !.pre = errors[b]]
    /\ prev' = last
    /\ UNCHANGED <<errors, cleanups, microtasks, status, inPass, client>>

\* the render protocol: passes, renders, unmounts and the microtask queue
Next ==
    \/ BeginPass
    \/ EndPass
    \/ \E n \in Nodes, stuff \in Stuff : IntoViewOk(n, stuff)
    \/ \E n \in Nodes, error \in ErrorValues : IntoViewErr(n, error)
    \/ \E n \in Nodes : Dispose(n)
    \/ RunMicrotask

Spec == Init /\ [][Next]_vars

\* the render protocol together with user code that calls the collection
\* directly at any key, for one node under the boundary and one outside any
FullNodes == {"n1", "n3"}

FullNext ==
    \/ BeginPass
    \/ EndPass
    \/ \E n \in FullNodes, stuff \in Stuff : IntoViewOk(n, stuff)
    \/ \E n \in FullNodes, error \in ErrorValues : IntoViewErr(n, error)
    \/ \E n \in FullNodes : Dispose(n)
    \/ RunMicrotask
    \/ \E b \in Boundaries, key \in Keys, error \in ErrorValues : Insert(b, key, error)
    \/ \E b \in Boundaries, error \in ErrorValues : InsertWithDefaultKey(b, error)
    \/ \E b \in Boundaries, key \in Keys : Remove(b, key)

FullSpec == Init /\ [][FullNext]_vars

\* the pass runs to completion and the host drains its microtask queue
FairSpec == Spec /\ WF_vars(EndPass) /\ WF_vars(RunMicrotask)

\* ------------------------------------------------ the collection on its own
\* every collection the three mutators can build: at most one entry per key
Collections ==
    {m \in SUBSET (Keys \X {Arc_new(e) : e \in ErrorValues}) :
        \A p, q \in m : p[1] = q[1] => p = q}

ApiInit ==
    /\ errors \in [Boundaries -> Collections]
    /\ cleanups = [n \in Nodes |-> <<>>]
    /\ microtasks = <<>>
    /\ status = [n \in Nodes |-> "unmounted"]
    /\ inPass = TRUE
    /\ client = FALSE
    /\ last = NoOp
    /\ prev = NoOp

ApiNext ==
    \/ \E b \in Boundaries, key \in Keys, error \in ErrorValues : ApiInsert(b, key, error)
    \/ \E b \in Boundaries, error \in ErrorValues : ApiInsertWithDefaultKey(b, error)
    \/ \E b \in Boundaries, key \in Keys : ApiRemove(b, key)
    \/ \E b \in Boundaries : ApiIsEmpty(b)
    \/ \E b \in Boundaries : ApiIter(b)

ApiSpec == ApiInit /\ [][ApiNext]_vars

\* ------------------------------------------------------------ properties
EntriesAt(m, key) == {p \in m : p[1] = key}
Present(b, key) == key \in HashMap_keys(errors[b])
BoundaryNodes == {n \in Nodes : use_context(n) # None}

\* C1: under a boundary, right after a failing render the boundary's collection
\* has exactly one entry at the key of the node's render position, and that
\* entry holds the failure just rendered, whatever was stored there before.
C1_FailureRenderStoresEntry ==
    (last.op = "into_view_err" /\ last.b # "-") =>
        /\ last.key = ErrorKey(HydrationCtx_peek(last.node).previous)
        /\ EntriesAt(errors[last.b], last.key) = {<<last.key, Arc_new(last.err)>>}
        /\ Cardinality(EntriesAt(errors[last.b], last.key)) = 1

\* a failing render that found another failure stored at its key
C1_Witness ==
    /\ last.op = "into_view_err"
    /\ last.b = "b1"
    /\ EntriesAt(last.pre, last.key) # {}
    /\ EntriesAt(last.pre, last.key) # {<<last.key, Arc_new(last.err)>>}
    /\ EntriesAt(errors[last.b], last.key) = {<<last.key, Arc_new(last.err)>>}

\* C2: under a boundary, right after a success render the collection has no
\* entry at the node's key; if no other key held an entry before the render,
\* is_empty() is then true.
C2_SuccessRenderClearsEntry ==
    (last.op = "into_view_ok" /\ last.b # "-") =>
        /\ ~Present(last.b, last.key)
        /\ (HashMap_keys(last.pre) \subseteq {last.key}) => Errors_is_empty(errors[last.b])

\* a success render at a position whose failure was the only entry
C2_Witness ==
    /\ last.op = "into_view_ok"
    /\ last.b = "b1"
    /\ HashMap_keys(last.pre) = {last.key}
    /\ Errors_is_empty(errors[last.b])

\* C3: on the client, once a node whose latest render failed under a boundary
\* is unmounted, the collection eventually has no entry at the node's key.
C3_UnmountEventuallyClears ==
    \A n \in BoundaryNodes :
        (client /\ last.op = "dispose" /\ last.node = n /\ last.err = "err")
            ~> ~Present(use_context(n)[1], IntoView_id(n))

\* the deferred removal of an unmounted failed node took its entry away
C3_Witness ==
    /\ client
    /\ last.op = "microtask"
    /\ EntriesAt(last.pre, last.key) # {}
    /\ ~Present(last.b, last.key)
    /\ \E n \in BoundaryNodes : IntoView_id(n) = last.key /\ status[n] = "unmounted"

AllKeys == {IntoView_id(n) : n \in Nodes} \cup {ErrorKey_default}

\* the latest step was an adapter action of node n: a render of n, or the
\* deferred removal queued for n's key
ActsFor(n) ==
    \/ last.op \in {"into_view_ok", "into_view_err"} /\ last.node = n
    \/ last.op = "microtask" /\ last.key = IntoView_id(n)

C5_NoBoundaryFailureTouchesNothing ==
    [][/\ \A n \in Nodes \ BoundaryNodes, e \in ErrorValues :
              inPass => ENABLED IntoViewErr(n, e)
       /\ (last'.op = "into_view_err" /\ last'.b = "-") =>
              /\ last'.view = "()"
              /\ errors' = errors
              /\ cleanups' = cleanups
              /\ microtasks' = microtasks
      ]_vars

\* a failing render outside any boundary while a boundary's collection holds an entry
C5_Witness ==
    /\ last.op = "into_view_err"
    /\ last.b = "-"
    /\ last.view = "()"
    /\ use_context(last.node) = None
    /\ \E b \in Boundaries : ~Errors_is_empty(errors[b])
    /\ microtasks = <<>>

\* C6: at every (boundary, key) an entry appears only by an insert at that key
\* (failing render or direct insert), disappears only by a remove at that key
\* (success render, direct remove) or by the deferred cleanup for that key, and
\* an insert at a key that has an entry keeps it present with the new value.
C6_PresenceStateMachine ==
    [][\A b \in Boundaries, key \in AllKeys :
          LET was == key \in HashMap_keys(errors[b])
              is == key \in HashMap_keys(errors'[b])
              inserts == /\ last'.op \in {"into_view_err", "insert", "insert_with_default_key"}
                         /\ last'.b = b
                         /\ last'.key = key
              removes == /\ last'.op \in {"into_view_ok", "remove", "microtask"}
                         /\ last'.b = b
                         /\ last'.key = key
          IN /\ (~was /\ is) => inserts
             /\ (was /\ ~is) => removes
             /\ inserts => EntriesAt(errors'[b], key) = {<<key, Arc_new(last'.err)>>}
             /\ removes => ~is
             /\ (was /\ is /\ ~inserts) =>
                    EntriesAt(errors'[b], key) = EntriesAt(errors[b], key)
      ]_vars

\* a deferred cleanup has just taken a present entry away
C6_Witness ==
    /\ last.op = "microtask"
    /\ EntriesAt(last.pre, last.key) # {}
    /\ ~Present(last.b, last.key)
    /\ \E key \in AllKeys : Present(last.b, key)

\* C7: a cleanup that fires only appends its closure to the microtask queue and
\* leaves the collections alone; the queued removal runs only when no pass is
\* running; renders apply their insert or remove within the pass, in the step
\* that renders.
C7_CleanupRemovalIsDeferred ==
    [][/\ last'.op = "dispose" =>
              /\ inPass /\ inPass'
              /\ errors' = errors
              /\ microtasks' = microtasks \o cleanups[last'.node]
       /\ last'.op = "microtask" =>
              /\ ~inPass /\ ~inPass'
              /\ microtasks' = Tail(microtasks)
       /\ (microtasks # <<>> /\ ~inPass) => last.op \in {"end", "microtask"}
       /\ last'.op \in {"into_view_ok", "into_view_err"} =>
              /\ inPass /\ inPass'
              /\ microtasks' = microtasks
              /\ last'.b # "-" =>
                     (last'.op = "into_view_err") =
                         (last'.key \in HashMap_keys(errors'[last'.b]))
      ]_vars

\* a cleanup has fired inside a pass and the entry it will remove is still stored
C7_Witness ==
    /\ last.op = "dispose"
    /\ inPass
    /\ microtasks # <<>>
    /\ LET closure == microtasks[Len(microtasks)]
       IN Present(closure.errors, closure.id)

\* C8: insert(k, e) followed by remove(k) returns the stored handle of e and
\* leaves no entry at k.
C8_InsertThenRemoveReturnsError ==
    (prev.op = "insert" /\ last.op = "remove" /\ last.b = prev.b /\ last.key = prev.key) =>
        /\ last.ret = Some(<<"Arc", prev.err>>)
        /\ ~Present(last.b, last.key)

\* insert(k, e2) over an entry holding e1, then remove(k)
C8_Witness ==
    /\ prev.op = "insert" /\ last.op = "remove"
    /\ last.b = prev.b /\ last.key = prev.key
    /\ prev.err = "e2"
    /\ EntriesAt(prev.pre, prev.key) = {<<prev.key, <<"Arc", "e1">>>>}
    /\ last.ret = Some(<<"Arc", "e2">>)
    /\ ~Present(last.b, last.key)

\* C9: insert(k, e1) followed by insert(k, e2) leaves exactly one entry at k,
\* holding e2, and the entries at every other key as they were before both.
C9_SecondInsertWins ==
    (prev.op = "insert" /\ last.op = "insert" /\ last.b = prev.b /\ last.key = prev.key) =>
        /\ EntriesAt(errors[last.b], last.key) = {<<last.key, <<"Arc", last.err>>>>}
        /\ Cardinality(EntriesAt(errors[last.b], last.key)) = 1
        /\ \A key \in AllKeys \ {last.key} :
               EntriesAt(errors[last.b], key) = EntriesAt(prev.pre, key)

\* two inserts of different errors at a key, next to an entry at another key
C9_Witness ==
    /\ prev.op = "insert" /\ last.op = "insert"
    /\ last.b = prev.b /\ last.key = prev.key
    /\ prev.err = "e1" /\ last.err = "e2"
    /\ EntriesAt(errors[last.b], last.key) = {<<last.key, <<"Arc", "e2">>>>}
    /\ \E key \in AllKeys \ {last.key} : EntriesAt(prev.pre, key) # {}

\* C10: remove(k) at a key without an entry returns nothing and leaves the
\* collection as it was.
C10_RemoveAbsentIsNoOp ==
    (last.op = "remove" /\ EntriesAt(last.pre, last.key) = {}) =>
        /\ last.ret = None
        /\ errors[last.b] = last.pre

\* remove of an absent key from a collection that holds other entries
C10_Witness ==
    /\ last.op = "remove"
    /\ EntriesAt(last.pre, last.key) = {}
    /\ last.pre # {}
    /\ last.ret = None
    /\ errors[last.b] = last.pre

\* C11: in every collection the three mutators can reach, iter() yields each
\* stored entry exactly once and nothing else, and is_empty() is true exactly
\* when iter() yields nothing.
C11_IterYieldsEveryEntryOnce ==
    /\ last.op = "iter" =>
           /\ {last.items[i] : i \in 1..Len(last.items)} = errors[last.b]
           /\ Len(last.items) = Cardinality(errors[last.b])
           /\ Errors_is_empty(errors[last.b]) = (last.items = <<>>)
    /\ last.op = "is_empty" =>
           \A it \in Errors_iter(errors[last.b]) : last.empty = (Iter_collect(it) = <<>>)

\* iter() over a collection of two entries built by the mutators
C11_Witness ==
    /\ last.op = "iter"
    /\ prev.op \in {"insert", "insert_with_default_key", "remove"}
    /\ Len(last.items) = 2
    /\ last.items[1] # last.items[2]
    /\ ~Errors_is_empty(errors[last.b])

\* C12: when a node under a boundary fails in render after render, each
\* further failure leaves exactly one entry at the node's key, holding the
\* latest failure, and the collection does not grow.
C12_RepeatedFailuresOverwrite ==
    [][(/\ last.op = "into_view_err"
        /\ last'.op = "into_view_err"
        /\ last'.node = last.node
        /\ last'.b # "-") =>
           LET b == last'.b
               key == last'.key
           IN /\ key = last.key
              /\ EntriesAt(errors'[b], key) = {<<key, <<"Arc", last'.err>>>>}
              /\ Cardinality(errors'[b]) = Cardinality(errors[b])
              /\ errors'[b] \ EntriesAt(errors'[b], key) = errors[b] \ EntriesAt(errors[b], key)
      ]_vars

\* on the client, the second failure of a node since its scope was created
\* has replaced the first
C12_Witness ==
    /\ client
    /\ last.op = "into_view_err"
    /\ last.b = "b1"
    /\ Len(cleanups[last.node]) = 2
    /\ EntriesAt(last.pre, last.key) # {}
    /\ EntriesAt(last.pre, last.key) # EntriesAt(errors[last.b], last.key)
    /\ Cardinality(errors[last.b]) = Cardinality(last.pre)

\* C13: once no pass is running and the microtask queue is empty, every node
\* under a boundary whose latest render failed has an entry at its key.
C13_FailingNodeKeepsEntry ==
    (~inPass /\ microtasks = <<>>) =>
        \A n \in BoundaryNodes :
            status[n] = "err" => Present(use_context(n)[1], IntoView_id(n))

\* C14: a success render under a boundary that finds no entry at the node's
\* key leaves the collection as it was, and rendering the success once more
\* gives the same collection as rendering it once.
C14_SuccessRenderIdempotent ==
    (last.op = "into_view_ok" /\ last.b # "-") =>
        /\ EntriesAt(last.pre, last.key) = {} => errors[last.b] = last.pre
        /\ IntoView_ok_errors(errors, use_context(last.node), IntoView_id(last.node)) = errors

\* a success render at a key without an entry while another key holds one
C14_Witness ==
    /\ last.op = "into_view_ok"
    /\ last.b = "b1"
    /\ EntriesAt(last.pre, last.key) = {}
    /\ last.pre # {}
    /\ errors[last.b] = last.pre

\* C15: after insert_with_default_key calls the collection has exactly one
\* entry under the default key, holding the error of the latest call, and the
\* entries under every other key are those from before the calls.
C15_DefaultKeyLastWriteWins ==
    last.op = "insert_with_default_key" =>
        /\ EntriesAt(errors[last.b], ErrorKey("")) = {<<ErrorKey(""), <<"Arc", last.err>>>>}
        /\ Cardinality(EntriesAt(errors[last.b], ErrorKey(""))) = 1
        /\ {p \in errors[last.b] : p[1] # ErrorKey("")} = {p \in last.pre : p[1] # ErrorKey("")}
        /\ (prev.op = "insert_with_default_key" /\ prev.b = last.b) =>
               {p \in errors[last.b] : p[1] # ErrorKey("")} = {p \in prev.pre : p[1] # ErrorKey("")}

\* two insert_with_default_key calls with different errors next to another entry
C15_Witness ==
    /\ prev.op = "insert_with_default_key" /\ last.op = "insert_with_default_key"
    /\ prev.b = last.b
    /\ prev.err = "e1" /\ last.err = "e2"
    /\ EntriesAt(errors[last.b], ErrorKey("")) = {<<ErrorKey(""), <<"Arc", "e2">>>>}
    /\ Cardinality(errors[last.b]) > 1

\* C16: a failing render, a success render and the deferred cleanup of a node
\* leave every entry at a key other than the node's key as it was.
C16_AdapterLeavesOtherKeys ==
    (last.op \in {"into_view_ok", "into_view_err", "microtask"} /\ last.b # "-") =>
        {p \in errors[last.b] : p[1] # last.key} = {p \in last.pre : p[1] # last.key}

\* a deferred cleanup removed its node's entry next to an entry at another key
C16_Witness ==
    /\ last.op = "microtask"
    /\ EntriesAt(last.pre, last.key) # {}
    /\ ~Present(last.b, last.key)
    /\ {p \in errors[last.b] : p[1] # last.key} # {}
    /\ {p \in errors[last.b] : p[1] # last.key} = {p \in last.pre : p[1] # last.key}

\* C17: a failing render returns the empty view and a success render returns
\* the view of the success value, with or without a boundary handle and
\* whatever the collection holds.
C17_ViewDependsOnResultOnly ==
    /\ last.op = "into_view_err" => last.view = "()"
    /\ last.op = "into_view_ok" => last.view = last.stuff /\ last.stuff \in Stuff

\* a success render under a boundary whose collection holds another failure
C17_Witness ==
    /\ last.op = "into_view_ok"
    /\ last.b = "b1"
    /\ last.stuff = "s2"
    /\ last.view = "s2"
    /\ ~Errors_is_empty(errors[last.b])
    /\ status["n3"] = "err"

\* C18: without the client cleanup hook no cleanup is registered and no
\* removal is queued, unmounting a node changes no collection, and an entry
\* leaves the collection only by a success render at its key.
C18_ServerKeepsEntryUntilSuccess ==
    [][~client =>
          /\ \A n \in Nodes : cleanups'[n] = <<>>
          /\ microtasks' = <<>>
          /\ last'.op = "dispose" => errors' = errors
          /\ \A b \in Boundaries, key \in AllKeys :
                 (Present(b, key) /\ ~Present(b, key)') =>
                     (last'.op = "into_view_ok" /\ last'.b = b /\ last'.key = key)
      ]_vars

\* on the server a node that failed was unmounted and its entry is still stored
C18_Witness ==
    /\ ~client
    /\ last.op = "dispose"
    /\ last.err = "err"
    /\ last.b = "b1"
    /\ status[last.node] = "unmounted"
    /\ Present(last.b, last.key)
    /\ microtasks = <<>>

\* running queued closures one after the other
RECURSIVE Microtasks_run_all(_, _)
Microtasks_run_all(errs, q) ==
    IF q = <<>> THEN errs
    ELSE Microtasks_run_all(Microtask_run(errs, Head(q)), Tail(q))

\* every order in which the closures of q may run
Orders(q) ==
    {[i \in 1..Len(q) |-> q[f[i]]] :
        f \in {g \in [1..Len(q) -> 1..Len(q)] : \A i, j \in 1..Len(q) : g[i] = g[j] => i = j}}

\* q with each closure kept once
RECURSIVE Once(_)
Once(q) ==
    IF q = <<>> THEN <<>>
    ELSE <<Head(q)>> \o Once(SelectSeq(Tail(q), LAMBDA c : c # Head(q)))

\* C19: on the client every failing render under a boundary registers one more
\* cleanup for the node's key and unmounting queues one removal per cleanup;
\* when the queued removals start to run, running all of them, in any order,
\* gives the collection that running each distinct one once gives, also when
\* another node renders at another key between two removals of the same key.
C19_RepeatedRemovalsAreIdempotent ==
    [][/\ (client /\ last'.op = "into_view_err" /\ last'.b # "-") =>
              cleanups'[last'.node] =
                  Append(cleanups[last'.node], [errors |-> last'.b, id |-> last'.key])
       /\ last'.op = "dispose" =>
              /\ microtasks' = microtasks \o cleanups[last'.node]
              /\ \A i \in 1..Len(cleanups[last'.node]) :
                     cleanups[last'.node][i] = [errors |-> last'.b, id |-> last'.key]
       /\ last'.op = "microtask" =>
              /\ errors' = Microtask_run(errors, Head(microtasks))
              /\ \A q \in Orders(microtasks) :
                     Microtasks_run_all(errors, q) = Microtasks_run_all(errors, Once(microtasks))
              /\ \A c \in {microtasks[i] : i \in 1..Len(microtasks)} :
                     \A m \in BoundaryNodes, e \in ErrorValues :
                         IntoView_id(m) # c.id =>
                             LET once == Microtask_run(errors, c)
                                 failed == IntoView_err_errors(once, use_context(m), IntoView_id(m), e)
                                 passed == IntoView_ok_errors(once, use_context(m), IntoView_id(m))
                             IN /\ Microtask_run(failed, c) = failed
                                /\ Microtask_run(passed, c) = passed
      ]_vars

\* a node that failed twice was unmounted: two removals for its key are queued
\* while another node's failure is stored
C19_Witness ==
    /\ client
    /\ last.op = "dispose"
    /\ Len(microtasks) = 2
    /\ microtasks[1] = microtasks[2]
    /\ microtasks[1].id = last.key
    /\ Present(last.b, last.key)
    /\ \E key \in AllKeys \ {last.key} : Present(last.b, key)
====
